---- MODULE Spec2Model ----
(***************************************************************************)
(* The echo chamber of src/main.rs: an identity counter, one tokio         *)
(* broadcast channel (the Hub) and one `handle` task per upgraded          *)
(* WebSocket connection.                                                   *)
(***************************************************************************)
EXTENDS Integers, Sequences, FiniteSets, TLC

(* ------------------------------ bounds -------------------------------- *)

\* connections that reach the /ws route
MaxConns == 2
\* frames the clients together put on their connections
MaxFrames == 2
\* values the broadcast ring retains (broadcast::channel(100), scaled down)
Capacity == 2

Conns == 0 .. (MaxConns - 1)

(* ----------------------------- constants ------------------------------ *)

\* t.len() > 500
SizeLimit == 500
\* CloseFrame { code: 1003, .. }
UnsupportedData == 1003
\* u64::MAX; TLC integers are 32 bits wide, the counter never gets near it
U64_MAX == 2147483647
\* id of a connection whose upgrade has not completed
NoId == -1

X10 == "xxxxxxxxxx"
X100 == X10 \o X10 \o X10 \o X10 \o X10 \o X10 \o X10 \o X10 \o X10 \o X10
X500 == X100 \o X100 \o X100 \o X100 \o X100

\* texts a client may send: short, exactly at the limit, one over the limit
ShortTexts == {"hi", X500}
Texts == ShortTexts \cup {X500 \o "y"}

(* ------------------------------ messages ------------------------------ *)

\* axum::extract::ws::Message
Text(s) == [type |-> "Text", data |-> s, code |-> 0]
Binary(b) == [type |-> "Binary", data |-> b, code |-> 0]
Ping(b) == [type |-> "Ping", data |-> b, code |-> 0]
Close(c, reason) == [type |-> "Close", data |-> reason, code |-> c]
\* Some(Err(e)) of ws.recv()
RecvErr == [type |-> "Err", data |-> "", code |-> 0]
\* no frame is sent
NoFrame == [type |-> "None", data |-> "", code |-> 0]

\* what a client can put on its connection
ClientFrames ==
    {Text(t) : t \in Texts} \cup {Binary("b"), Ping("b"), Close(1000, ""), RecvErr}

Range(s) == {s[i] : i \in 1 .. Len(s)}
Count(s, x) == Cardinality({i \in 1 .. Len(s) : s[i] = x})

VARIABLES
    cnt,        \* AppState.cnt
    arcs,       \* owners of the Arc<AppState>, and so of the Sender
    log,        \* every envelope sent on AppState.snd, in order
    offered,    \* offered[i]: the receivers registered when log[i] was sent
    greeted,    \* greeted[i]: the clients greeted and served when log[i] was sent
    accepted,   \* connections in the order their upgrade completed
    id,         \* handle's id argument
    pc,         \* where each connection's task is
    subscribed, \* rcv of handle exists
    next,       \* rcv's position in the stream
    got,        \* indices of log that rcv.recv() returned as Ok
    skipped,    \* indices of log that rcv lost to Lagged
    wsClosed,   \* the socket has seen the peer's Close frame
    sent,       \* frames ws.send() wrote to the client
    csent,      \* frames the client wrote
    inbox,      \* frames the client wrote that ws.recv() has not returned yet
    cstate      \* client side: "open", "closing" (Close written), "ended"

vars == <<cnt, arcs, log, offered, greeted, accepted, id, pc, subscribed, next,
          got, skipped, wsClosed, sent, csent, inbox, cstate>>

hubVars == <<log, offered, greeted>>
clientVars == <<csent, inbox, cstate>>

\* the task runs handle()
Live == {"greet", "subscribe", "loop", "sleep", "exit"}
\* the client has been sent its greeting and the task still serves it
Served == {"subscribe", "loop", "sleep"}

\* frames written by all clients so far
FramesWritten ==
    LET S[k \in 0 .. MaxConns] == IF k = 0 THEN 0 ELSE S[k - 1] + Len(csent[k - 1])
    IN S[MaxConns]

(* ------------------------- identity allocator ------------------------- *)

\* variant: the increment is lost
FetchAddNoStore(v) == [old |-> v, new |-> v]
\* state.cnt.fetch_add(1, SeqCst): the old value is returned
FetchAdd(v) == [old |-> v, new |-> v + 1]

(* -------------------------------- Hub --------------------------------- *)

Receivers == {c \in Conns : subscribed[c]}

\* variant: a new receiver starts at the oldest retained value
SubscribeOldest == IF Len(log) > Capacity THEN Len(log) - Capacity ELSE 0
\* snd.subscribe(): the new receiver starts at the tail
SubscribePos == Len(log)

\* variant: an empty receiver reports Closed
RecvKindEmptyIsClosed(c) ==
    LET tail == Len(log) IN
    IF next[c] < tail - Capacity THEN "Lagged"
    ELSE IF next[c] < tail THEN "Ok"
    ELSE "Closed"
\* rcv.recv(): Lagged when the slot was overwritten, the next value when there
\* is one, Closed when every Sender is gone, pending otherwise
RecvKind(c) ==
    LET tail == Len(log) IN
    IF next[c] < tail - Capacity THEN "Lagged"
    ELSE IF next[c] < tail THEN "Ok"
    ELSE IF arcs = 0 THEN "Closed"
    ELSE "Pending"

\* the position a lagged receiver is moved to: the oldest retained value
LagPos == Len(log) - Capacity

\* variant: the receiver returns the newest value
RecvIndexNewest(c) == Len(log)
\* the index in log of the value an Ok receive returns: the receiver's next
RecvIndex(c) == next[c] + 1

(* --------------------------- handle's policy -------------------------- *)

\* variant: the greeting names the counter's new value
GreetingOffByOne(n) == Text("You are " \o ToString(n + 1))
\* Message::Text(format!("You are {}", id))
Greeting(n) == Text("You are " \o ToString(n))

\* format!("{} says {}", id2, msg)
Says(n, t) == Text(ToString(n) \o " says " \o t)

\* variant: the notice names the next identity
NoticeOffByOne(n) == Text(ToString(n + 1) \o " disconnected")
\* Message::Text(format!("{} disconnected", id))
Notice(n) == Text(ToString(n) \o " disconnected")

TooLongNotice == Text("message too long, not sent")

\* variant: the limit itself is refused
TooLongAtLimit(t) == Len(t) >= SizeLimit
\* t.len() > 500
TooLong(t) == Len(t) > SizeLimit

\* variant: the close code is 1000
RejectFrameNormal == Close(1000, "only text messages are allowed")
\* CloseFrame { code: 1003, reason: "only text messages are allowed" }
RejectFrame == Close(UnsupportedData, "only text messages are allowed")

\* variant: a session does not relay its own envelopes
OutboundNoEcho(c, env) ==
    IF env[1] = U64_MAX THEN env[2]
    ELSE IF env[1] = id[c] THEN NoFrame
    ELSE IF env[2].type = "Text" THEN Says(env[1], env[2].data)
    ELSE NoFrame
\* variant: the text arm comes before the u64::MAX arm
OutboundSentinelWrapped(c, env) ==
    IF env[2].type = "Text" THEN Says(env[1], env[2].data)
    ELSE IF env[1] = U64_MAX THEN env[2]
    ELSE NoFrame
\* the Race::Other(Ok(..)) arms: what the task of c sends for an envelope
Outbound(c, env) ==
    IF env[1] = U64_MAX THEN env[2]
    ELSE IF env[2].type = "Text" THEN Says(env[1], env[2].data)
    ELSE NoFrame

\* variant: Lagged breaks the loop too
AfterOtherLagBreaks(kind) == IF kind \in {"Closed", "Lagged"} THEN "exit" ELSE "loop"
\* the Race::Other arms: only Closed breaks the loop
AfterOther(kind) == IF kind = "Closed" THEN "exit" ELSE "loop"

\* variant: the Close guard of the rejecting arm is missing
IsRejectedWithClose(f) == f.type \notin {"None", "Err", "Text"}
\* Race::Me(Some(Ok(msg))) if !matches!(msg, Message::Close(_)), below the text arms
IsRejected(f) == f.type \notin {"None", "Err", "Text", "Close"}

\* variant: the publishing arm takes binary frames too
IsPublishedAnyData(f) == f.type \in {"Text", "Binary"} /\ ~TooLong(f.data)
\* Race::Me(Some(Ok(msg @ Message::Text(_)))), below the too-long arm
IsPublished(f) == f.type = "Text" /\ ~TooLong(f.data)

\* variant: the pause follows every text frame
AfterMeSleepAlways(none, reject, long) ==
    IF none \/ reject THEN "exit" ELSE IF long THEN "sleep" ELSE "sleep"
\* the Race::Me arms: None and a rejected frame break the loop, a too-long
\* text ends in tokio::time::sleep, everything else goes round
AfterMe(none, reject, long) ==
    IF none \/ reject THEN "exit" ELSE IF long THEN "sleep" ELSE "loop"

\* ws.send(..) returns Err once the socket has seen the peer's Close frame
\* ("it may result in sending to a closed websocket"); a transport that
\* breaks without a Close frame only ends the client's stream
SendFails(c) == wsClosed[c]

(* -------------------------------- Init -------------------------------- *)

Init ==
    /\ cnt = 0
    /\ arcs = 1
    /\ log = <<>>
    /\ offered = <<>>
    /\ greeted = <<>>
    /\ accepted = <<>>
    /\ id = [c \in Conns |-> NoId]
    /\ pc = [c \in Conns |-> "tcp"]
    /\ subscribed = [c \in Conns |-> FALSE]
    /\ next = [c \in Conns |-> 0]
    /\ got = [c \in Conns |-> <<>>]
    /\ skipped = [c \in Conns |-> {}]
    /\ wsClosed = [c \in Conns |-> FALSE]
    /\ sent = [c \in Conns |-> <<>>]
    /\ csent = [c \in Conns |-> <<>>]
    /\ inbox = [c \in Conns |-> <<>>]
    /\ cstate = [c \in Conns |-> "open"]

(* ------------------------------- upgrade ------------------------------ *)

\* on_upgrade's callback: allocate the identity, start handle
Upgrade(c) ==
    /\ pc[c] = "tcp"
    /\ id' = [id EXCEPT ![c] = FetchAdd(cnt).old]
    /\ cnt' = FetchAdd(cnt).new
    /\ accepted' = Append(accepted, c)
    /\ arcs' = arcs + 1
    /\ pc' = [pc EXCEPT ![c] = "greet"]
    /\ UNCHANGED <<hubVars, subscribed, next, got, skipped, wsClosed, sent, clientVars>>

\* on_failed_upgrade(fail): logged, no identity is taken
UpgradeFail(c) ==
    /\ pc[c] = "tcp"
    /\ pc' = [pc EXCEPT ![c] = "failed"]
    /\ UNCHANGED <<cnt, arcs, hubVars, accepted, id, subscribed, next, got, skipped,
                   wsClosed, sent, clientVars>>

(* ------------------------------- client ------------------------------- *)

\* the client writes a frame; nothing follows a Close frame
ClientSend(c, f) ==
    /\ pc[c] \in Live
    /\ cstate[c] = "open"
    /\ FramesWritten < MaxFrames
    /\ csent' = [csent EXCEPT ![c] = Append(@, f)]
    /\ inbox' = [inbox EXCEPT ![c] = Append(@, f)]
    /\ cstate' = [cstate EXCEPT ![c] = IF f.type = "Close" THEN "closing" ELSE "open"]
    /\ UNCHANGED <<cnt, arcs, hubVars, accepted, id, pc, subscribed, next, got, skipped,
                   wsClosed, sent>>

\* the client's stream ends
ClientEnd(c) ==
    /\ pc[c] \in Live
    /\ cstate[c] \in {"open", "closing"}
    /\ cstate' = [cstate EXCEPT ![c] = "ended"]
    /\ UNCHANGED <<cnt, arcs, hubVars, accepted, id, pc, subscribed, next, got, skipped,
                   wsClosed, sent, csent, inbox>>

(* ------------------------------- handle ------------------------------- *)

\* ws.send(Message::Text(format!("You are {}", id))).await.unwrap()
Greet(c) ==
    /\ pc[c] = "greet"
    /\ sent' = [sent EXCEPT ![c] = IF SendFails(c) THEN @ ELSE Append(@, Greeting(id[c]))]
    /\ pc' = [pc EXCEPT ![c] = IF SendFails(c) THEN "panicked" ELSE "subscribe"]
    /\ arcs' = IF SendFails(c) THEN arcs - 1 ELSE arcs
    /\ UNCHANGED <<cnt, hubVars, accepted, id, subscribed, next, got, skipped, wsClosed,
                   clientVars>>

\* let mut rcv = state.snd.subscribe()
Subscribe(c) ==
    /\ pc[c] = "subscribe"
    /\ subscribed' = [subscribed EXCEPT ![c] = TRUE]
    /\ next' = [next EXCEPT ![c] = SubscribePos]
    /\ pc' = [pc EXCEPT ![c] = "loop"]
    /\ UNCHANGED <<cnt, arcs, hubVars, accepted, id, got, skipped, wsClosed, sent, clientVars>>

\* select! takes the rcv.recv() branch
RaceOther(c) ==
    /\ pc[c] = "loop"
    /\ RecvKind(c) # "Pending"
    /\ LET kind == RecvKind(c)
           out == IF kind = "Ok" THEN Outbound(c, log[RecvIndex(c)]) ELSE NoFrame
           panics == out # NoFrame /\ SendFails(c)
       IN /\ next' = [next EXCEPT ![c] = IF kind = "Lagged" THEN LagPos
                                        ELSE IF kind = "Ok" THEN @ + 1 ELSE @]
          /\ skipped' = [skipped EXCEPT ![c] = IF kind = "Lagged"
                                              THEN @ \cup ((next[c] + 1) .. LagPos) ELSE @]
          /\ got' = [got EXCEPT ![c] = IF kind = "Ok" THEN Append(@, RecvIndex(c)) ELSE @]
          /\ sent' = [sent EXCEPT ![c] = IF out # NoFrame /\ ~panics THEN Append(@, out) ELSE @]
          /\ pc' = [pc EXCEPT ![c] = IF panics THEN "panicked" ELSE AfterOther(kind)]
          /\ subscribed' = [subscribed EXCEPT ![c] = ~panics]
          /\ arcs' = IF panics THEN arcs - 1 ELSE arcs
    /\ UNCHANGED <<cnt, hubVars, accepted, id, wsClosed, clientVars>>

\* ws.recv() has something to return: a frame, or None when the client's
\* stream is over or the socket has seen the peer's Close
MeReady(c) == inbox[c] # <<>> \/ cstate[c] = "ended" \/ wsClosed[c]

\* select! takes the ws.recv() branch
RaceMe(c) ==
    /\ pc[c] = "loop"
    /\ MeReady(c)
    /\ LET none == inbox[c] = <<>>
           f == IF none THEN NoFrame ELSE Head(inbox[c])
           long == f.type = "Text" /\ TooLong(f.data)
           publish == IsPublished(f)
           reject == IsRejected(f)
           out == IF long THEN TooLongNotice ELSE IF reject THEN RejectFrame ELSE NoFrame
           panics == (out # NoFrame /\ SendFails(c)) \/ (publish /\ Receivers = {})
       IN /\ inbox' = [inbox EXCEPT ![c] = IF none THEN @ ELSE Tail(@)]
          /\ sent' = [sent EXCEPT ![c] = IF out # NoFrame /\ ~panics THEN Append(@, out) ELSE @]
          /\ log' = IF publish /\ ~panics THEN Append(log, <<id[c], f>>) ELSE log
          /\ offered' = IF publish /\ ~panics THEN Append(offered, Receivers) ELSE offered
          /\ greeted' = IF publish /\ ~panics
                        THEN Append(greeted, {d \in Conns : pc[d] \in Served}) ELSE greeted
          /\ wsClosed' = [wsClosed EXCEPT ![c] = @ \/ f.type = "Close"]
          /\ pc' = [pc EXCEPT ![c] = IF panics THEN "panicked"
                                     ELSE AfterMe(none, reject, long)]
          /\ subscribed' = [subscribed EXCEPT ![c] = ~panics]
          /\ arcs' = IF panics THEN arcs - 1 ELSE arcs
    /\ UNCHANGED <<cnt, accepted, id, next, got, skipped, csent, cstate>>

\* tokio::time::sleep(Duration::from_millis(500)) is over
Wake(c) ==
    /\ pc[c] = "sleep"
    /\ pc' = [pc EXCEPT ![c] = "loop"]
    /\ UNCHANGED <<cnt, arcs, hubVars, accepted, id, subscribed, next, got, skipped,
                   wsClosed, sent, clientVars>>

\* variant: rcv is dropped before the disconnect envelope is sent
ExitDropFirst(c) ==
    /\ pc[c] = "exit"
    /\ LET panics == Receivers \ {c} = {}
       IN /\ log' = IF panics THEN log ELSE Append(log, <<U64_MAX, Notice(id[c])>>)
          /\ offered' = IF panics THEN offered ELSE Append(offered, Receivers \ {c})
          /\ greeted' = IF panics THEN greeted
                        ELSE Append(greeted, {d \in Conns : pc[d] \in Served})
          /\ pc' = [pc EXCEPT ![c] = IF panics THEN "panicked" ELSE "done"]
    /\ subscribed' = [subscribed EXCEPT ![c] = FALSE]
    /\ arcs' = arcs - 1
    /\ UNCHANGED <<cnt, accepted, id, next, got, skipped, wsClosed, sent, clientVars>>

\* after the loop: send the disconnect envelope, return (rcv and state drop)
Exit(c) ==
    /\ pc[c] = "exit"
    /\ LET panics == Receivers = {}
       IN /\ log' = IF panics THEN log ELSE Append(log, <<U64_MAX, Notice(id[c])>>)
          /\ offered' = IF panics THEN offered ELSE Append(offered, Receivers)
          /\ greeted' = IF panics THEN greeted
                        ELSE Append(greeted, {d \in Conns : pc[d] \in Served})
          /\ pc' = [pc EXCEPT ![c] = IF panics THEN "panicked" ELSE "done"]
    /\ subscribed' = [subscribed EXCEPT ![c] = FALSE]
    /\ arcs' = arcs - 1
    /\ UNCHANGED <<cnt, accepted, id, next, got, skipped, wsClosed, sent, clientVars>>

Next ==
    \E c \in Conns :
        \/ Upgrade(c)
        \/ UpgradeFail(c)
        \/ \E f \in ClientFrames : ClientSend(c, f)
        \/ ClientEnd(c)
        \/ Greet(c)
        \/ Subscribe(c)
        \/ RaceOther(c)
        \/ RaceMe(c)
        \/ Wake(c)
        \/ Exit(c)

Spec == Init /\ [][Next]_vars

\* select! polls its ready branches in random order and the runtime runs every
\* ready task, so no step of a task stays enabled forever without being taken
Fairness ==
    \A c \in Conns :
        /\ WF_vars(Greet(c))
        /\ WF_vars(Subscribe(c))
        /\ WF_vars(RaceOther(c))
        /\ WF_vars(RaceMe(c))
        /\ WF_vars(Wake(c))
        /\ WF_vars(Exit(c))

FairSpec == Init /\ [][Next]_vars /\ Fairness

TypeOK ==
    /\ cnt \in 0 .. MaxConns
    /\ arcs \in 1 .. (MaxConns + 1)
    /\ Len(offered) = Len(log) /\ Len(greeted) = Len(log)
    /\ \A c \in Conns : next[c] \in 0 .. Len(log)

(* ------------------------------- claims ------------------------------- *)

Ended == {"done", "panicked"}
\* the task of c has taken its greeting step
PastGreeting(c) == pc[c] \notin {"tcp", "failed", "greet"}
\* c's task waits in select! and its receiver has nothing left to return
CaughtUp(c) == pc[c] = "loop" /\ next[c] = Len(log) /\ skipped[c] = {}
\* this step of c's task took a frame from the client's stream
TookFrame(c) == pc[c] = "loop" /\ inbox[c] # <<>> /\ inbox'[c] = Tail(inbox[c])

\* C1: the k-th connection whose upgrade completes holds identity k (from 0),
\* no two sessions hold the same identity, and identities strictly increase in
\* the order of acceptance.
C1_Identities ==
    /\ \A k \in 1 .. Len(accepted) : id[accepted[k]] = k - 1
    /\ \A c, d \in Conns : (c # d /\ id[c] # NoId /\ id[d] # NoId) => id[c] # id[d]
    /\ \A j, k \in 1 .. Len(accepted) : j < k => id[accepted[j]] < id[accepted[k]]

\* two sessions run at once, accepted against the order of their connections
C1_Witness ==
    /\ Len(accepted) = 2 /\ accepted[1] > accepted[2]
    /\ \A k \in 1 .. 2 : pc[accepted[k]] \in Live

\* C2: the first frame sent to a client is "You are N", N its session's
\* identity, and that frame is sent exactly once: nothing precedes it and it
\* never recurs.
C2_GreetingFirstOnce ==
    \A c \in Conns :
        LET g == Text("You are " \o ToString(id[c])) IN
        /\ sent[c] # <<>> => sent[c][1] = g
        /\ Count(sent[c], g) <= 1
        /\ PastGreeting(c) => Count(sent[c], g) = 1

\* a client that was sent its greeting, then a relay, then a notice
C2_Witness ==
    \E c \in Conns :
        /\ Len(sent[c]) >= 3
        /\ \E i \in 2 .. Len(sent[c]) : \E d \in Conns : sent[c][i] = Says(id[d], "hi")
        /\ \E i \in 2 .. Len(sent[c]) : \E d \in Conns : d # c /\ sent[c][i] = Notice(id[d])

\* C3 (as claimed): every client that was connected (greeted and served) when
\* a within-limit text was published, still waits in its loop with nothing
\* left to receive and never lagged, has been sent "{sender} says t".
C3_FanOutCompleteness ==
    \A i \in 1 .. Len(log) : \A b \in Conns :
        (/\ log[i][1] # U64_MAX
         /\ b \in greeted[i]
         /\ CaughtUp(b) /\ cstate[b] = "open")
        => Says(log[i][1], log[i][2].data) \in Range(sent[b])

\* every within-limit text c's client wrote so far has come back to it
Echoed(c) ==
    \A t \in ShortTexts : Count(sent[c], Says(id[c], t)) >= Count(csent[c], Text(t))

\* C4 (as claimed): every within-limit text a client wrote comes back to it as
\* "{own id} says t", whatever it wrote next and however the race went.
C4_SelfInclusion == \A c \in Conns : []<>Echoed(c)

\* C4 (amended): every within-limit text a client wrote comes back to it as
\* "{own id} says t", formatted as for the other clients, unless its session
\* ends first or lags past the envelope.
C4_SelfInclusionInLoop ==
    \A c \in Conns : []<>(Echoed(c) \/ pc[c] \in Ended \/ skipped[c] # {})

\* a client wrote "hi" twice and was sent "{own id} says hi" twice, and the
\* other client was sent the same frames
C4_Witness ==
    \E c, d \in Conns :
        /\ c # d
        /\ Count(csent[c], Text("hi")) = 2
        /\ Count(sent[c], Says(id[c], "hi")) = 2
        /\ Count(sent[d], Says(id[c], "hi")) = 2

\* C5 (as claimed): once the session of a client that closed its connection is
\* over, every other client that shared the Hub with it, is still connected,
\* has nothing left to receive and never lagged, has been sent
\* "{departed id} disconnected".
C5_DisconnectNotice ==
    \A d, o \in Conns :
        (/\ d # o
         /\ cstate[d] # "open" /\ pc[d] \in Ended
         /\ CaughtUp(o) /\ cstate[o] = "open"
         /\ \E i \in 1 .. Len(log) : {d, o} \subseteq offered[i])
        => Notice(id[d]) \in Range(sent[o])

\* C6: a text frame is published as (selfId, Text(t)) exactly when its length
\* is at most 500; a longer one publishes nothing, sends the one frame
\* "message too long, not sent" to its sender only, and the session goes on.
C6_SizePolicy ==
    /\ [](\A i \in 1 .. Len(log) :
            log[i][1] # U64_MAX => log[i][2].type = "Text" /\ Len(log[i][2].data) <= 500)
    /\ [][\A c \in Conns :
            (TookFrame(c) /\ Head(inbox[c]).type = "Text") =>
                LET f == Head(inbox[c]) IN
                IF Len(f.data) <= 500
                THEN /\ log' = Append(log, <<id[c], Text(f.data)>>)
                     /\ sent' = sent
                     /\ pc'[c] = "loop"
                ELSE /\ log' = log
                     /\ sent' = [sent EXCEPT ![c] = Append(@, Text("message too long, not sent"))]
                     /\ pc'[c] \in {"loop", "sleep"}]_vars

\* one client was refused a 501-unit text, is back in its loop, and its
\* 500-unit text was published
C6_Witness ==
    \E c \in Conns :
        /\ Text("message too long, not sent") \in Range(sent[c])
        /\ pc[c] = "loop"
        /\ \E i \in 1 .. Len(log) : log[i] = <<id[c], Text(X500)>>

\* C7: a client frame that is neither text nor Close makes the session send
\* the close frame 1003 "only text messages are allowed", leave the loop and
\* end; its payload is never published nor sent to any client.
C7_BinaryRejection ==
    /\ [](/\ \A i \in 1 .. Len(log) : log[i][2].type = "Text" /\ log[i][2].data # "b"
          /\ \A c \in Conns : \A i \in 1 .. Len(sent[c]) :
                sent[c][i].type \in {"Text", "Close"} /\ sent[c][i].data # "b")
    /\ [][\A c \in Conns :
            /\ (TookFrame(c) /\ Head(inbox[c]).type \notin {"Text", "Close", "Err"}) =>
                    /\ sent' = [sent EXCEPT ![c] =
                                   Append(@, Close(1003, "only text messages are allowed"))]
                    /\ log' = log
                    /\ pc'[c] = "exit"
            /\ (pc[c] = "exit" /\ pc'[c] # "exit") => pc'[c] = "done"]_vars

\* the scenario of the spec: B sent binary, was sent the close frame and is
\* gone; A was sent "{B} disconnected"
C7_Witness ==
    \E a, b \in Conns :
        /\ a # b
        /\ csent[b] = <<Binary("b")>>
        /\ pc[b] = "done"
        /\ sent[b][Len(sent[b])] = Close(1003, "only text messages are allowed")
        /\ Notice(id[b]) \in Range(sent[a])

\* C8: a Lagged result sends nothing, publishes nothing, leaves the session in
\* its loop and subscribed, at the oldest retained value.
C8_LagNeverTerminates ==
    [][\A c \in Conns :
        (pc[c] = "loop" /\ next[c] < Len(log) - Capacity /\ next'[c] # next[c]) =>
            /\ sent' = sent
            /\ log' = log
            /\ pc'[c] = "loop"
            /\ subscribed'[c]
            /\ next'[c] = Len(log) - Capacity]_vars

\* a session lagged, then received the latest envelope and relayed it
C8_Witness ==
    \E c \in Conns :
        /\ skipped[c] # {} /\ pc[c] = "loop"
        /\ got[c] # <<>> /\ got[c][Len(got[c])] = Len(log)
        /\ got[c][Len(got[c])] > 1
        /\ Len(sent[c]) >= 2

\* C9: an envelope reaches the stream of exactly the sessions subscribed when
\* it was published: what a receiver returned or lost, and what lies ahead of
\* a live receiver, was published while it was subscribed (no replay), and
\* every session subscribed at publication has it received, lost or ahead.
C9_DeliverySet ==
    \A i \in 1 .. Len(log) : \A c \in Conns :
        /\ (i \in Range(got[c]) \cup skipped[c]) => c \in offered[i]
        /\ (subscribed[c] /\ i > next[c]) => c \in offered[i]
        /\ c \in offered[i] => (i \in Range(got[c]) \cup skipped[c] \/ i > next[c])

\* an envelope received by one session and not offered to a later subscriber,
\* which has since received a later one
C9_Witness ==
    \E i \in 1 .. Len(log) : \E c, d \in Conns :
        /\ c \in offered[i] /\ i \in Range(got[c])
        /\ d \notin offered[i] /\ subscribed[d]
        /\ \E j \in Range(got[d]) : j > i

\* C10: no receive of a session yields Closed, and a session leaves its loop
\* only on an event of its client's stream.
C10_NeverClosed ==
    /\ [](arcs >= 1 /\ \A c \in Conns : pc[c] = "loop" => RecvKind(c) # "Closed")
    /\ [][\A c \in Conns :
            (pc[c] = "loop" /\ pc'[c] = "exit") =>
                \/ inbox[c] = <<>> /\ (cstate[c] = "ended" \/ wsClosed[c])
                \/ TookFrame(c)]_vars

\* a session waits on an empty receiver after another session ended
C10_Witness ==
    \E c, d \in Conns :
        /\ pc[c] = "loop" /\ next[c] = Len(log) /\ Len(log) > 0
        /\ inbox[c] = <<>> /\ cstate[c] = "open"
        /\ pc[d] \in Ended

\* this step of c's task took log[i] from its receiver
TookEnvelope(c, i) == pc[c] = "loop" /\ got'[c] = Append(got[c], i)

\* C11: a session forwards an envelope tagged u64::MAX verbatim and every
\* other text envelope as "{otherId} says t"; no connection holds u64::MAX
\* as its identity.
C11_RelayFormatting ==
    /\ [](cnt < U64_MAX /\ \A c \in Conns : id[c] # U64_MAX)
    /\ [][\A c \in Conns : \A i \in 1 .. Len(log) :
            (TookEnvelope(c, i) /\ ~wsClosed[c]) =>
                IF log[i][1] = U64_MAX
                THEN sent'[c] = Append(sent[c], log[i][2])
                ELSE log[i][2].type = "Text" =>
                        sent'[c] = Append(sent[c],
                            Text(ToString(log[i][1]) \o " says " \o log[i][2].data))]_vars

\* a client was sent another client's text with its prefix and then, as the
\* last frame, that client's notice as published
C11_Witness ==
    \E c, d \in Conns :
        /\ c # d /\ id[c] # NoId /\ id[d] # NoId
        /\ Len(sent[c]) >= 3
        /\ sent[c][Len(sent[c]) - 1] = Text(ToString(id[d]) \o " says hi")
        /\ sent[c][Len(sent[c])] = Text(ToString(id[d]) \o " disconnected")
        /\ log[Len(log)] = <<U64_MAX, sent[c][Len(sent[c])]>>

\* C12 (as claimed): a session that has sent its greeting is subscribed, so
\* every envelope published once a client was greeted is offered to it.
C12_SubscribedBeforeGreeting ==
    /\ \A c \in Conns : (sent[c] # <<>> /\ pc[c] \in Served) => subscribed[c]
    /\ \A i \in 1 .. Len(log) : greeted[i] \subseteq offered[i]

\* C13 (as claimed): a session that has ended has published exactly one
\* envelope (u64::MAX, "{id} disconnected"), however it ended.
C13_ExitAction ==
    \A c \in Conns :
        pc[c] \in Ended => Count(log, <<U64_MAX, Notice(id[c])>>) = 1

\* a frame that forwards a Hub envelope: a text that is neither the greeting
\* nor the too-long notice
IsForward(f) == f.type = "Text" /\ f # Text("message too long, not sent")
\* the frames c's client was sent for Hub envelopes, in the order sent
Forwards(c) == IF sent[c] = <<>> THEN <<>> ELSE SelectSeq(Tail(sent[c]), IsForward)
\* the frame an envelope is forwarded as
ForwardOf(env) ==
    IF env[1] = U64_MAX THEN env[2]
    ELSE Text(ToString(env[1]) \o " says " \o env[2].data)

\* C14: a receiver returns envelopes in publication order, and the frames a
\* client is sent for them are, in order, the forwards of the envelopes its
\* receiver returned (those lost to lag left out).
C14_PerSubscriberOrder ==
    \A c \in Conns :
        /\ \A j, k \in 1 .. Len(got[c]) : j < k => got[c][j] < got[c][k]
        /\ Len(Forwards(c)) <= Len(got[c])
        /\ Len(got[c]) - Len(Forwards(c)) <= (IF pc[c] = "panicked" THEN 1 ELSE 0)
        /\ \A k \in 1 .. Len(Forwards(c)) : Forwards(c)[k] = ForwardOf(log[got[c][k]])

\* a client was sent, after its greeting, the forwards of two different
\* envelopes published one after the other, in that order
C14_Witness ==
    \E c \in Conns :
        /\ Len(got[c]) >= 2 /\ Len(Forwards(c)) = Len(got[c])
        /\ \E k \in 1 .. (Len(got[c]) - 1) :
              /\ got[c][k + 1] = got[c][k] + 1
              /\ log[got[c][k]] # log[got[c][k + 1]]
              /\ c \in offered[got[c][k]] /\ c \in offered[got[c][k + 1]]
        /\ Len(sent[c]) = 1 + Len(got[c])

\* C15 (as claimed): a subscribed session that has not left its loop waits on
\* its two event sources (its outbound sends are part of the steps it takes
\* from there); it is never suspended anywhere else.
C15_SuspendOnlyAtWaitOrSend ==
    \A c \in Conns : (subscribed[c] /\ pc[c] # "exit") => pc[c] = "loop"

\* C15 (amended): a session suspends only at the wait on its two event
\* sources, at outbound sends, and in the pause that follows the too-long
\* notice: it enters the pause only by refusing a text over 500 units, and
\* while it pauses it neither receives from the Hub, nor takes a client frame,
\* nor sends.
C15_SuspendAlsoInPause ==
    /\ [](\A c \in Conns : (subscribed[c] /\ pc[c] # "exit") => pc[c] \in {"loop", "sleep"})
    /\ [][\A c \in Conns :
            /\ (pc[c] # "sleep" /\ pc'[c] = "sleep") =>
                    /\ TookFrame(c)
                    /\ Head(inbox[c]).type = "Text" /\ Len(Head(inbox[c]).data) > 500
                    /\ sent'[c] = Append(sent[c], Text("message too long, not sent"))
            /\ pc[c] = "sleep" =>
                    /\ sent'[c] = sent[c] /\ next'[c] = next[c] /\ got'[c] = got[c]
                    /\ Len(inbox'[c]) >= Len(inbox[c])
                    /\ pc'[c] \in {"sleep", "loop"}]_vars

\* a session pauses while its receiver holds an envelope and its client has
\* written another frame
C15_Witness ==
    \E c \in Conns :
        /\ pc[c] = "sleep"
        /\ next[c] < Len(log)
        /\ inbox[c] # <<>>

\* C16: a Close frame from the client makes the session send nothing and
\* publish nothing and leaves it in its loop; after it the session leaves the
\* loop for its exit step only when ws.recv() reports the end of the stream.
C16_CloseNoReaction ==
    [][\A c \in Conns :
        /\ (TookFrame(c) /\ Head(inbox[c]).type = "Close") =>
                /\ sent' = sent
                /\ log' = log
                /\ pc'[c] = "loop"
                /\ subscribed'[c]
        /\ (wsClosed[c] /\ pc[c] = "loop" /\ pc'[c] = "exit") =>
                (inbox[c] = <<>> /\ sent' = sent)]_vars

\* a session took a Close frame, went on to take the end of the stream and
\* has published its notice, having sent its client the greeting only
C16_Witness ==
    \E c \in Conns :
        /\ wsClosed[c] /\ pc[c] = "done"
        /\ csent[c] = <<Close(1000, "")>>
        /\ Len(sent[c]) = 1

\* the connection that published log[i]: the sender of a text, the departed
\* session of a notice
Publisher(i) ==
    {c \in Conns : /\ id[c] # NoId
                   /\ \/ log[i][1] = id[c]
                      \/ log[i] = <<U64_MAX, Text(ToString(id[c]) \o " disconnected")>>}

\* C17: wherever a session publishes, its own receiver is registered: a
\* session in its loop, its pause or its exit step is subscribed, every
\* envelope was offered to its own publisher, and no session ever panicked
\* with the socket open, which a failed publish would make it do.
C17_PublishNeverFails ==
    /\ \A c \in Conns : pc[c] \in {"loop", "sleep", "exit"} => subscribed[c]
    /\ \A i \in 1 .. Len(log) : Publisher(i) # {} /\ Publisher(i) \subseteq offered[i]
    /\ \A c \in Conns : pc[c] = "panicked" => wsClosed[c]

\* a session published its own disconnect notice as the only receiver left
C17_Witness ==
    \E c \in Conns : \E i \in 1 .. Len(log) :
        /\ log[i] = <<U64_MAX, Text(ToString(id[c]) \o " disconnected")>>
        /\ offered[i] = {c}
        /\ \E d \in Conns : d # c /\ pc[d] = "done"

\* C18: every envelope tagged u64::MAX is (u64::MAX, Text("N disconnected"))
\* for a session N that has left its loop, there is at most one per N, and no
\* client frame brings about any other.
C18_SentinelIntegrity ==
    \A i \in 1 .. Len(log) :
        log[i][1] = U64_MAX =>
            /\ \E c \in Conns :
                  /\ id[c] # NoId
                  /\ log[i][2] = Text(ToString(id[c]) \o " disconnected")
                  /\ pc[c] = "done"
            /\ Count(log, log[i]) = 1

\* both sessions have left and the Hub holds one notice for each
C18_Witness ==
    /\ Len(log) >= 2
    /\ \A c \in Conns : pc[c] = "done"
    /\ \E i, j \in 1 .. Len(log) : i # j /\ log[i][1] = U64_MAX /\ log[j][1] = U64_MAX

\* C19: once (u64::MAX, "N disconnected") is published no envelope of sender
\* N follows it, and no client is sent "N says .." after "N disconnected".
C19_DepartureFinal ==
    /\ \A i, j \in 1 .. Len(log) :
          (/\ i < j
           /\ log[i][1] = U64_MAX
           /\ log[j][1] # U64_MAX)
          => log[i][2] # Text(ToString(log[j][1]) \o " disconnected")
    /\ \A c \in Conns : \A j, k \in 1 .. Len(sent[c]) : \A d \in Conns : \A t \in Texts :
          (/\ id[d] # NoId
           /\ j < k
           /\ sent[c][j] = Text(ToString(id[d]) \o " disconnected"))
          => sent[c][k] # Text(ToString(id[d]) \o " says " \o t)

\* a client was sent "N says hi" and then "N disconnected", and a text of
\* another sender was published after N's notice
C19_Witness ==
    \E c, d \in Conns : \E j \in 1 .. Len(sent[c]) :
        /\ c # d /\ id[d] # NoId
        /\ j > 1
        /\ sent[c][j - 1] = Text(ToString(id[d]) \o " says hi")
        /\ sent[c][j] = Text(ToString(id[d]) \o " disconnected")
        /\ log[Len(log)][1] = id[c]

\* C20: every envelope of the Hub carries a Text payload, so no receive takes
\* the arm that discards other payloads: every envelope a session takes is
\* forwarded, unless the send fails.
C20_OnlyTextInHub ==
    /\ [](\A i \in 1 .. Len(log) : log[i][2].type = "Text")
    /\ [][\A c \in Conns : \A i \in 1 .. Len(log) :
            TookEnvelope(c, i) =>
                \/ Len(sent'[c]) = Len(sent[c]) + 1
                \/ wsClosed[c] /\ pc'[c] = "panicked"]_vars

\* a client wrote a binary frame after a text; the Hub holds the text and the
\* notice only, and the other client took both
C20_Witness ==
    \E c, d \in Conns :
        /\ c # d
        /\ csent[c] = <<Text("hi"), Binary("b")>>
        /\ pc[c] = "done"
        /\ Len(log) = 2
        /\ got[d] = <<1, 2>>

====
